---- MODULE Spec2Model ----
(***************************************************************************)
(* Model of bury_ndays.py: the "Bury N days" add-on.  A durable table      *)
(* buried(cid PRIMARY KEY, until) records until when a card stays buried;  *)
(* the bury action writes it and asks the host scheduler to bury the       *)
(* cards; reapply_buries re-asserts the still-active records on profile    *)
(* load and around every sync, and sometimes sweeps the expired records.   *)
(***************************************************************************)
EXTENDS Integers, Sequences, FiniteSets, TLC

\* ---------------------------------------------------------------- bounds
NumCards == 2
MaxDays == 2
MaxClockDays == 2
MaxPending == 1
MaxLen == 4
MaxVal == 22

\* ------------------------------------------------------- program constants
SECONDS_IN_DAY == 86400
CleanupOdds == 10

Cards == 1..NumCards

\* int(time.time()): the clock values the model visits, whole numbers of
\* days after the first reading.
TimePoints == {d * SECONDS_IN_DAY : d \in 0..MaxClockDays}

\* Optional[tuple[int, int]]: None is the empty tuple.
None == <<>>

\* ------------------------------------------------------------------ text
Digits == {"0", "1", "2", "3", "4", "5", "6", "7", "8", "9"}
Alphabet == {" ", "-", "0", "1", "2", "x"}

DigitVal(ch) ==
    CASE ch = "0" -> 0 [] ch = "1" -> 1 [] ch = "2" -> 2 [] ch = "3" -> 3
      [] ch = "4" -> 4 [] ch = "5" -> 5 [] ch = "6" -> 6 [] ch = "7" -> 7
      [] ch = "8" -> 8 [] ch = "9" -> 9

DigitChar(d) == CHOOSE ch \in Digits : DigitVal(ch) = d

\* The texts a user can type: every string over Alphabet up to MaxLen.
Texts == UNION {[1..n -> Alphabet] : n \in 0..MaxLen}

RECURSIVE LStrip(_)
LStrip(s) == IF s # <<>> /\ Head(s) = " " THEN LStrip(Tail(s)) ELSE s

RECURSIVE RStrip(_)
RStrip(s) ==
    IF s # <<>> /\ s[Len(s)] = " " THEN RStrip(SubSeq(s, 1, Len(s) - 1)) ELSE s

\* str.strip()
Strip(s) == RStrip(LStrip(s))

\* "-" in text
HasDash(s) == \E i \in 1..Len(s) : s[i] = "-"

\* text.split("-", 1): the parts before and after the first "-".
SplitFirst(s) ==
    LET i == CHOOSE k \in 1..Len(s) :
                 s[k] = "-" /\ \A j \in 1..(k - 1) : s[j] # "-"
    IN  <<SubSeq(s, 1, i - 1), SubSeq(s, i + 1, Len(s))>>

RECURSIVE DigitsValue(_)
DigitsValue(s) ==
    IF s = <<>> THEN 0
    ELSE DigitsValue(SubSeq(s, 1, Len(s) - 1)) * 10 + DigitVal(s[Len(s)])

\* int(token): surrounding whitespace is ignored, then an optional sign and
\* at least one digit; anything else is a ValueError (ok = FALSE).
IntOf(tok) ==
    LET s == Strip(tok)
        neg == s # <<>> /\ Head(s) = "-"
        body == IF neg THEN Tail(s) ELSE s
        good == body # <<>> /\ \A i \in 1..Len(body) : body[i] \in Digits
    IN  IF good
        THEN [ok |-> TRUE,
              val |-> IF neg THEN 0 - DigitsValue(body) ELSE DigitsValue(body)]
        ELSE [ok |-> FALSE, val |-> 0]

\* The earlier revision's policy: a range given high-low is swapped.
parse_days_range_swap(text) ==
    LET t == Strip(text) IN
    IF HasDash(t)
    THEN LET parts == SplitFirst(t)
             low == IntOf(parts[1])
             high == IntOf(parts[2])
             lo == IF low.val > high.val THEN high.val ELSE low.val
             hi == IF low.val > high.val THEN low.val ELSE high.val
         IN  IF ~low.ok \/ ~high.ok THEN None
             ELSE IF lo < 1 THEN None
             ELSE <<lo, hi>>
    ELSE LET val == IntOf(t)
         IN  IF ~val.ok THEN None
             ELSE IF val.val < 1 THEN None
             ELSE <<val.val, val.val>>

parse_days_range(text) ==
    LET t == Strip(text) IN
    IF HasDash(t)
    THEN LET parts == SplitFirst(t)
             low == IntOf(parts[1])
             high == IntOf(parts[2])
         IN  IF ~low.ok \/ ~high.ok THEN None
             ELSE IF low.val > high.val THEN None
             ELSE IF low.val < 1 THEN None
             ELSE <<low.val, high.val>>
    ELSE LET val == IntOf(t)
         IN  IF ~val.ok THEN None
             ELSE IF val.val < 1 THEN None
             ELSE <<val.val, val.val>>

\* The decimal rendering of a natural number.
RECURSIVE Str(_)
Str(k) == IF k < 10 THEN <<DigitChar(k)>>
          ELSE Str(k \div 10) \o <<DigitChar(k % 10)>>

\* The texts the bury dialog is given in the full model: a blank one, a
\* malformed one, and every range of at most MaxDays days.
UserTexts ==
    {<<" ">>, <<"x">>}
        \cup UNION {{Str(a) \o <<"-">> \o Str(b) : b \in a..MaxDays} :
                       a \in 1..MaxDays}

\* ----------------------------------------------------------------- state
VARIABLES
    pc,           \* where the single-threaded program is
    now,          \* int(time.time())
    tableExists,  \* bury.db has the table buried
    store,        \* the rows of buried: [cid, until]
    hostBuried,   \* the cards the host scheduler holds buried
    hostQueue,    \* the bury operations running in the background, each its cards, oldest first
    syncing,      \* between sync_will_start and sync_did_finish
    cids,         \* bury_cards_ui: the selected cards
    text,         \* ask_days_range: the text the last dialog returned
    ok,           \* ask_days_range: the ok flag the last dialog returned
    days_range,   \* the validated range, or None
    removed,      \* the cards whose row the last SQL statement removed
    hostCall,     \* the scheduler call the last step issued
    ui            \* the message the last step showed

vars == <<pc, now, tableExists, store, hostBuried, hostQueue, syncing, cids,
          text, ok, days_range, removed, hostCall, ui>>

NoCall == [by |-> "none", issued |-> FALSE, cids |-> {}]
NoMsg == [msg |-> "none", count |-> 0, total |-> 0]

\* ----------------------------------------------------------------- store
Row(c, u) == [cid |-> c, until |-> u]

\* SELECT cid FROM buried WHERE until >= ?   (boundary included)
select_active_ge(st, t) == {r.cid : r \in {x \in st : x.until >= t}}

\* SELECT cid FROM buried WHERE until > ? + 86400   (a day too strict)
select_active_late(st, t) ==
    {r.cid : r \in {x \in st : x.until > t + SECONDS_IN_DAY}}

\* SELECT cid FROM buried WHERE until > ?
select_active(st, t) == {r.cid : r \in {x \in st : x.until > t}}

\* DELETE FROM buried WHERE until < ?   (boundary kept)
delete_expired_lt(st, t) == {r \in st : ~(r.until < t)}

\* DELETE FROM buried WHERE until <= ?
delete_expired(st, t) == {r \in st : ~(r.until <= t)}

\* INSERT OR IGNORE: an existing row of the same cid wins.
insert_or_ignore(st, data) ==
    st \cup {Row(c, data[c]) : c \in {d \in DOMAIN data : \A r \in st : r.cid # d}}

\* executemany("INSERT OR REPLACE INTO buried (cid, until) VALUES (?, ?)"):
\* cid is the PRIMARY KEY, so a row of the same cid is removed first.
insert_or_replace(st, data) ==
    {r \in st : r.cid \notin DOMAIN data} \cup {Row(c, data[c]) : c \in DOMAIN data}

\* until_ts without the conversion of days to seconds.
until_ts_days(current_time, days) == current_time + days

\* until_ts = current_time + days * SECONDS_IN_DAY
until_ts(current_time, days) == current_time + days * SECONDS_IN_DAY

\* A scheduler call that replaces the buried set.
sched_bury_cards_reset(buried, cs) == cs

\* col.sched.buryCards(cids): the host marks the cards buried.
sched_bury_cards(buried, cs) == buried \cup cs

\* The check of the selection left out.
no_cards_never(cs) == FALSE

\* if not cids
no_cards(cs) == cs = {}

\* ask_days_range with an if in place of the while: invalid text ends it.
ask_days_range_once(okv, textv) ==
    IF ~okv \/ Strip(textv) = <<>> THEN "idle"
    ELSE IF parse_days_range(textv) = None THEN "idle"
    ELSE "mark"

\* ask_days_range, one pass of the loop: where the dialog's answer leads.
ask_days_range(okv, textv) ==
    IF ~okv \/ Strip(textv) = <<>> THEN "idle"
    ELSE IF parse_days_range(textv) = None THEN "warning"
    ELSE "mark"

\* ------------------------------------------------------------------ Init
Init ==
    /\ pc = "import"
    /\ now = 0
    /\ tableExists = FALSE
    /\ store = {}
    /\ hostBuried \in SUBSET Cards
    /\ hostQueue = <<>>
    /\ syncing = FALSE
    /\ cids = {}
    /\ text = <<>>
    /\ ok = FALSE
    /\ days_range = None
    /\ removed = {}
    /\ hostCall = NoCall
    /\ ui = NoMsg

\* No dialog returned in this step.
NoAnswer == text' = <<>> /\ ok' = FALSE

\* A step that removes no row, calls no scheduler and shows nothing.
Quiet == /\ removed' = {}
         /\ hostCall' = NoCall
         /\ ui' = NoMsg
         /\ NoAnswer

\* Where a handler returns to: the sync in progress, or the idle event loop.
Return == IF syncing THEN "syncing" ELSE "idle"

\* --------------------------------------------------------------- actions
\* Time passes, to the next clock value the model visits.
Tick ==
    /\ \E t \in TimePoints :
          /\ t > now
          /\ \A u \in TimePoints : u > now => t <= u
          /\ now' = t
    /\ Quiet
    /\ UNCHANGED <<pc, tableExists, store, hostBuried, hostQueue, syncing,
                   cids, days_range>>

\* The process ends (a crash or a quit) and starts again: nothing of it
\* survives but bury.db and the host's collection; background operations
\* that had not run are lost.
Restart ==
    /\ pc' = "import"
    /\ hostQueue' = <<>>
    /\ syncing' = FALSE
    /\ cids' = {}
    /\ days_range' = None
    /\ Quiet
    /\ UNCHANGED <<now, tableExists, store, hostBuried>>

\* Before the add-on runs again the host has unburied its cards (it does so
\* on a new day), which is what reapply_buries is there to undo.
host_unburies ==
    /\ pc = "import"
    /\ hostBuried # {}
    /\ hostBuried' = {}
    /\ Quiet
    /\ UNCHANGED <<pc, now, tableExists, store, hostQueue, syncing, cids,
                   days_range>>

init_db ==
    /\ pc = "import"
    /\ tableExists' = TRUE
    /\ pc' = "profile"
    /\ Quiet
    /\ UNCHANGED <<now, store, hostBuried, hostQueue, syncing, cids,
                   days_range>>

\* addHook("profileLoaded", partial(reapply_buries, use_collection_op=False))
profileLoaded ==
    /\ pc = "profile"
    /\ pc' = "reapply"
    /\ Quiet
    /\ UNCHANGED <<now, tableExists, store, hostBuried, hostQueue, syncing,
                   cids, days_range>>

on_sync_will_start ==
    /\ pc = "idle"
    /\ syncing' = TRUE
    /\ pc' = "reapply"
    /\ Quiet
    /\ UNCHANGED <<now, tableExists, store, hostBuried, hostQueue, cids, days_range>>

on_sync_finished ==
    /\ pc = "syncing"
    /\ syncing' = FALSE
    /\ pc' = "reapply"
    /\ Quiet
    /\ UNCHANGED <<now, tableExists, store, hostBuried, hostQueue, cids, days_range>>

\* reapply_buries(use_collection_op=False) up to the draw for the cleanup.
reapply_buries ==
    /\ pc = "reapply"
    /\ tableExists
    /\ LET rows == select_active(store, now)
           count == Cardinality(rows \ hostBuried)
       IN  IF rows # {}
           THEN /\ hostBuried' = sched_bury_cards(hostBuried, rows)
                /\ hostCall' = [by |-> "reapply_buries", issued |-> TRUE,
                                cids |-> rows]
                /\ ui' = IF count > 0
                         THEN [msg |-> "reburied", count |-> count,
                               total |-> Cardinality(rows)]
                         ELSE NoMsg
           ELSE /\ hostBuried' = hostBuried
                /\ hostCall' = [by |-> "reapply_buries", issued |-> FALSE,
                                cids |-> {}]
                /\ ui' = NoMsg
    /\ \E sweep \in {r = 1 : r \in 1..CleanupOdds} :
          pc' = IF sweep THEN "cleanup" ELSE Return
    /\ removed' = {}
    /\ NoAnswer
    /\ UNCHANGED <<now, tableExists, store, hostQueue, syncing, cids, days_range>>

cleanup_expired ==
    /\ pc = "cleanup"
    /\ store' = delete_expired(store, now)
    /\ removed' = {r.cid : r \in store \ store'}
    /\ pc' = Return
    /\ hostCall' = NoCall
    /\ ui' = NoMsg
    /\ NoAnswer
    /\ UNCHANGED <<now, tableExists, hostBuried, hostQueue, syncing, cids, days_range>>

\* bury_cards_ui up to the first dialog, for the cards cs.
bury_cards_ui(cs) ==
    /\ pc = "idle"
    /\ Len(hostQueue) < MaxPending
    /\ IF no_cards(cs)
       THEN /\ ui' = [msg |-> "no_cards", count |-> 0, total |-> 0]
            /\ UNCHANGED <<pc, cids>>
       ELSE /\ ui' = NoMsg
            /\ pc' = "prompt"
            /\ cids' = cs
    /\ removed' = {}
    /\ hostCall' = NoCall
    /\ NoAnswer
    /\ UNCHANGED <<now, tableExists, store, hostBuried, hostQueue, syncing, days_range>>

\* bury_cards_ui(browser, browser.selectedCards())
bury_browser_selected == \E cs \in SUBSET Cards : bury_cards_ui(cs)

\* if reviewer.card: bury_cards_ui(mw, [reviewer.card.id])
bury_reviewer_card == \E c \in Cards : bury_cards_ui({c})

\* One pass of ask_days_range's loop: the dialog returns cancelled (no text,
\* ok false) or a text of T, and the pass ends the loop or warns; with no
\* range, bury_cards_ui returns.
ask_days_range_pass(T) ==
    /\ pc = "prompt"
    /\ \/ text' = <<>> /\ ok' = FALSE
       \/ text' \in T /\ ok' = TRUE
    /\ pc' = ask_days_range(ok', text')
    /\ days_range' = IF pc' = "mark" THEN parse_days_range(text') ELSE None
    /\ ui' = IF pc' = "warning"
             THEN [msg |-> "warning", count |-> 0, total |-> 0] ELSE NoMsg
    /\ cids' = IF pc' = "idle" THEN {} ELSE cids
    /\ removed' = {}
    /\ hostCall' = NoCall
    /\ UNCHANGED <<now, tableExists, store, hostBuried, hostQueue, syncing>>

\* The warning box is closed and the loop asks again.
warning_closed ==
    /\ pc = "warning"
    /\ pc' = "prompt"
    /\ Quiet
    /\ UNCHANGED <<now, tableExists, store, hostBuried, hostQueue, syncing,
                   cids, days_range>>

\* A store write left out of the bury action.
mark_cards_as_n_buried_skip ==
    /\ pc = "mark"
    /\ pc' = "issue"
    /\ Quiet
    /\ UNCHANGED <<now, tableExists, store, hostBuried, hostQueue, syncing,
                   cids, days_range>>

mark_cards_as_n_buried ==
    /\ pc = "mark"
    /\ tableExists
    /\ \E days \in [cids -> days_range[1]..days_range[2]] :
          LET data == [c \in cids |-> until_ts(now, days[c])]
          IN  store' = insert_or_replace(store, data)
    /\ removed' = {r.cid : r \in {x \in store : x.cid \in cids}}
    /\ pc' = "issue"
    /\ hostCall' = NoCall
    /\ ui' = NoMsg
    /\ NoAnswer
    /\ UNCHANGED <<now, tableExists, hostBuried, hostQueue, syncing, cids, days_range>>

\* bury_cards(parent, card_ids=cids).success(_on_success).run_in_background()
bury_cards ==
    /\ pc = "issue"
    /\ hostQueue' = Append(hostQueue, cids)
    /\ hostCall' = [by |-> "bury_cards_ui", issued |-> TRUE, cids |-> cids]
    /\ pc' = "idle"
    /\ cids' = {}
    /\ days_range' = None
    /\ removed' = {}
    /\ ui' = NoMsg
    /\ NoAnswer
    /\ UNCHANGED <<now, tableExists, store, hostBuried, syncing>>

\* The oldest background operation runs in the host, then _on_success.
bury_cards_done ==
    /\ hostQueue # <<>>
    /\ LET cs == Head(hostQueue)
           count == Cardinality(cs \ hostBuried)
       IN  /\ hostBuried' = sched_bury_cards(hostBuried, cs)
           /\ ui' = IF count = 0 THEN NoMsg
                    ELSE [msg |-> "buried", count |-> count,
                          total |-> Cardinality(cs)]
    /\ hostQueue' = Tail(hostQueue)
    /\ removed' = {}
    /\ hostCall' = NoCall
    /\ NoAnswer
    /\ UNCHANGED <<pc, now, tableExists, store, syncing, cids,
                   days_range>>

Next ==
    \/ Tick
    \/ Restart
    \/ host_unburies
    \/ init_db
    \/ profileLoaded
    \/ on_sync_will_start
    \/ on_sync_finished
    \/ reapply_buries
    \/ cleanup_expired
    \/ bury_browser_selected
    \/ bury_reviewer_card
    \/ ask_days_range_pass(UserTexts)
    \/ warning_closed
    \/ mark_cards_as_n_buried
    \/ bury_cards
    \/ bury_cards_done

Spec == Init /\ [][Next]_vars

\* ------------------------------------------- the parser on its own inputs
InitParse ==
    /\ pc = "parse"
    /\ now = 0
    /\ tableExists = FALSE
    /\ store = {}
    /\ hostBuried = {}
    /\ hostQueue = <<>>
    /\ syncing = FALSE
    /\ cids = {}
    /\ text \in Texts
    /\ ok = TRUE
    /\ days_range = None
    /\ removed = {}
    /\ hostCall = NoCall
    /\ ui = NoMsg

ParseText ==
    /\ pc = "parse"
    /\ days_range' = parse_days_range(text)
    /\ pc' = "parsed"
    /\ UNCHANGED <<now, tableExists, store, hostBuried, hostQueue, syncing,
                   cids, text, ok, removed, hostCall, ui>>

NextParse == ParseText

SpecParse == InitParse /\ [][NextParse]_vars

\* --------------------------------------------------------------- helpers
RowsOf(st, c) == {r \in st : r.cid = c}

\* The card ids whose stored until is strictly greater than t.
ActiveAt(st, t) == {c \in Cards : \E r \in st : r.cid = c /\ r.until > t}

\* A step that ends a pass of reapply_buries / a sweep / the store write.
ReapplyStep == pc = "reapply" /\ pc' \in {"cleanup", "idle", "syncing"}
SweepStep == pc = "cleanup" /\ pc' \in {"idle", "syncing"}
MarkStep == pc = "mark" /\ pc' = "issue"
EvalStep == pc = "prompt" /\ pc' \in {"idle", "warning", "mark"}

\* ---------------------------------------------------------------- claims

\* C1: a pass of reapply_buries at time now asks the host to bury exactly the
\* cards whose stored until is strictly greater than now (until = now and
\* until < now are left out), and issues no call when there is none.
C1_ReapplyBuriesExactlyActive ==
    hostCall.by = "reapply_buries" =>
        /\ hostCall.cids = ActiveAt(store, now)
        /\ hostCall.issued = (ActiveAt(store, now) # {})
        /\ \A r \in store : r.until <= now => r.cid \notin hostCall.cids
        /\ \A r \in store : r.until > now => r.cid \in hostCall.cids

C1_Witness ==
    /\ hostCall.by = "reapply_buries"
    /\ hostCall.issued
    /\ \E r \in store : r.until = now /\ r.cid \notin hostCall.cids
    /\ \E r \in store : r.until = now + SECONDS_IN_DAY /\ r.cid \in hostCall.cids

\* C2: no step of the add-on takes a card out of the host's buried set, and
\* a pass of reapply_buries leaves the host state of every card outside the
\* active set as it was.
C2_HostBuriedOnlyGrows ==
    [][/\ pc' # "import" => hostBuried \subseteq hostBuried'
       /\ ReapplyStep =>
            \A c \in Cards \ ActiveAt(store, now) :
                (c \in hostBuried') = (c \in hostBuried)]_vars

C2_Witness ==
    /\ hostCall.by = "reapply_buries"
    /\ hostCall.issued
    /\ \E c \in hostBuried \ hostCall.cids : RowsOf(store, c) = {}
    /\ ui.msg = "reburied"

\* C3: the store write of a bury action at time T with range [low, high]
\* leaves, for every selected card, exactly one row whose until is
\* T + d * 86400 for some d in low..high, keeps the rows of the other cards,
\* and every selected card is active at T.
C3_MarkWritesUntil ==
    [][MarkStep =>
        /\ \A c \in cids :
             /\ \E d \in days_range[1]..days_range[2] :
                   RowsOf(store', c) = {Row(c, now + d * SECONDS_IN_DAY)}
             /\ \E r \in store' : r.cid = c /\ r.until > now
        /\ \A c \in Cards \ cids : RowsOf(store', c) = RowsOf(store, c)]_vars

C3_Witness ==
    /\ pc = "issue"
    /\ Cardinality(cids) = 2
    /\ days_range = <<1, 2>>
    /\ \E r1 \in store, r2 \in store :
          /\ r1.cid \in cids /\ r2.cid \in cids
          /\ r1.until = now + SECONDS_IN_DAY
          /\ r2.until = now + 2 * SECONDS_IN_DAY

\* C4: when a pass of reapply_buries has completed at time now, every card
\* with a row until > now is buried in the host, also a card whose bury was
\* lost with the process before the host had marked it.
C4_ReapplyHeals ==
    hostCall.by = "reapply_buries" =>
        \A r \in store : r.until > now => r.cid \in hostBuried

C4_Witness ==
    /\ hostCall.by = "reapply_buries"
    /\ ui.msg = "reburied"
    /\ ui.count = ui.total
    /\ ui.count > 0

\* C5: a bury action without a valid range changes nothing: with no card
\* selected, on cancel, and on rejected text, the store, the host's buried
\* set and its queue of operations stay as they are and no call is issued;
\* only a selection that is not empty is prompted for, and only a parsed
\* range leads on to the store write.
C5_NoRangeNoMutation ==
    [][/\ ( /\ pc \in {"idle", "prompt", "warning"}
            /\ pc' \in {"idle", "prompt", "warning"}
            /\ Len(hostQueue') >= Len(hostQueue) )
          => /\ store' = store
             /\ hostBuried' = hostBuried
             /\ hostQueue' = hostQueue
             /\ ~hostCall'.issued
             /\ (pc' = "prompt" => cids' # {})
       /\ pc' = "mark" =>
             /\ cids' # {}
             /\ days_range' # None
             /\ (pc = "prompt" =>
                    ok' /\ parse_days_range(text') = days_range')]_vars

C5_Witness ==
    /\ pc = "warning"
    /\ ui.msg = "warning"
    /\ store # {}
    /\ hostBuried # {}

C7_ParseDaysRange ==
    pc = "parsed" =>
        LET t == Strip(text)
            r == days_range
        IN  /\ \A k \in 0..MaxVal :
                  t = Str(k) => r = IF k >= 1 THEN <<k, k>> ELSE None
            /\ \A a \in 0..MaxVal, b \in 0..MaxVal :
                  t = Str(a) \o <<"-">> \o Str(b) =>
                      r = IF 1 <= a /\ a <= b THEN <<a, b>> ELSE None
            /\ (\E i \in 1..Len(t) : t[i] \notin Digits \cup {" ", "-"})
                  => r = None
            /\ (\A i \in 1..Len(t) : t[i] \notin Digits) => r = None
            /\ (t # <<>> /\ Head(t) = "-") => r = None
            /\ r # None =>
                  /\ Len(r) = 2
                  /\ 1 <= r[1]
                  /\ r[1] <= r[2]

C7_Witness ==
    /\ pc = "parsed"
    /\ text = <<" ", "1", "-", "2">>
    /\ days_range = <<1, 2>>

\* C8: when the bury action issues the host's bury call, the store already
\* holds, for every selected card, the row this action wrote.
C8_StoreBeforeHostCall ==
    /\ pc = "issue" =>
          \A c \in cids : \E r \in store :
              /\ r.cid = c
              /\ \E t \in TimePoints, d \in days_range[1]..days_range[2] :
                    t <= now /\ r.until = t + d * SECONDS_IN_DAY
    /\ hostCall.by = "bury_cards_ui" =>
          /\ hostCall.issued
          /\ hostCall.cids # {}
          /\ \A c \in hostCall.cids : RowsOf(store, c) # {}

C8_Witness ==
    /\ hostCall.by = "bury_cards_ui"
    /\ hostQueue # <<>>
    /\ \E c \in hostCall.cids :
          c \notin hostBuried /\ \E r \in store : r.cid = c /\ r.until > now

\* C9: the store never holds two rows of one card, and a bury of a card that
\* has a row replaces it: afterwards the card's only row carries the until
\* this bury computed, whether the old until was earlier or later, and the
\* card is active by the new until alone.
C9_LastWriteWins ==
    [][/\ store' # store =>
            \A r1 \in store', r2 \in store' : r1.cid = r2.cid => r1 = r2
       /\ MarkStep =>
            \A c \in cids :
                RowsOf(store, c) # {} =>
                    /\ c \in removed'
                    /\ \E d \in days_range[1]..days_range[2] :
                          LET u == now + d * SECONDS_IN_DAY
                          IN  /\ RowsOf(store', c) = {Row(c, u)}
                              /\ \A t \in TimePoints :
                                    (c \in ActiveAt(store', t)) = (u > t)]_vars

C9_Witness ==
    /\ pc = "issue"
    /\ removed = cids
    /\ Cardinality(cids) = 2
    /\ \E r1 \in store, r2 \in store : r1.until # r2.until

\* C10: the sweep at time now removes exactly the rows with until <= now and
\* keeps every row with until > now; a pass of reapply_buries changes the
\* store in no other way, and the sweep changes the active set of no time
\* t >= now.
C10_SweepRemovesExactlyExpired ==
    [][/\ SweepStep =>
            /\ store' = {r \in store : r.until > now}
            /\ store \ store' = {r \in store : r.until <= now}
            /\ \A t \in TimePoints :
                  t >= now => ActiveAt(store', t) = ActiveAt(store, t)
       /\ ReapplyStep => store' = store
      ]_vars

C10_Witness ==
    /\ pc \in {"idle", "syncing"}
    /\ removed # {}
    /\ \E r \in store : r.until = now + SECONDS_IN_DAY

====
